---- MODULE Spec2Model ----
(***************************************************************************)
(* A model of template-jsx: the element tree built by createElement and    *)
(* the built-in components (HtmlPage, Head, If, Switch, Case, Default),    *)
(* the recursive serializer render/renderInternal, and the express glue    *)
(* create/createHandler.                                                   *)
(*                                                                         *)
(* JavaScript strings are sequences of one-character strings, so that      *)
(* concatenation, substring search and whitespace stripping are computed.  *)
(* JavaScript values (attribute values, the Switch scrutinee, the status)  *)
(* are records [t, n, s]: a type tag, a number and a string.               *)
(* A Node is a record [k, s, name, props, children]: k is "text" (s is the *)
(* text), "list" (children are the array's items) or "elem" (an Element).  *)
(***************************************************************************)
EXTENDS Integers, Sequences, FiniteSets, TLC

VARIABLES stack, built, rendered, response

vars == <<stack, built, rendered, response>>

----------------------------------------------------------------------------
(* JavaScript values *)

Str(s) == [t |-> "str", n |-> 0, s |-> s]
Num(n) == [t |-> "num", n |-> n, s |-> <<>>]
Bool(b) == [t |-> "bool", n |-> IF b THEN 1 ELSE 0, s |-> <<>>]
Undefined == [t |-> "undefined", n |-> 0, s |-> <<>>]
NaN == [t |-> "nan", n |-> 0, s |-> <<>>]

\* if (v) ...: the empty string, 0, false, NaN and undefined are falsy.
Truthy(v) ==
    CASE v.t = "str" -> v.s # <<>>
      [] v.t = "num" -> v.n # 0
      [] v.t = "bool" -> v.n = 1
      [] OTHER -> FALSE

Digits == <<"0", "1", "2", "3", "4", "5", "6", "7", "8", "9">>

IsDigit(c) == \E i \in 1..10 : Digits[i] = c

DigitValue(c) == (CHOOSE i \in 1..10 : Digits[i] = c) - 1

RECURSIVE NatToString(_)
NatToString(n) ==
    IF n < 10 THEN <<Digits[n + 1]>>
    ELSE NatToString(n \div 10) \o <<Digits[(n % 10) + 1]>>

\* `${v}`: the string a template literal puts for a value (ToString).
JsToString(v) ==
    CASE v.t = "str" -> v.s
      [] v.t = "num" -> IF v.n < 0 THEN <<"-">> \o NatToString(-v.n) ELSE NatToString(v.n)
      [] v.t = "bool" -> IF v.n = 1 THEN <<"t", "r", "u", "e">> ELSE <<"f", "a", "l", "s", "e">>
      [] v.t = "nan" -> <<"N", "a", "N">>
      [] OTHER -> <<"u", "n", "d", "e", "f", "i", "n", "e", "d">>

RECURSIVE ParseNat(_, _)
ParseNat(s, acc) ==
    IF s = <<>> THEN acc ELSE ParseNat(Tail(s), acc * 10 + DigitValue(Head(s)))

\* ToNumber of the loose comparison: "" is 0, a digit string its number,
\* any other string NaN; true is 1 and false is 0.
ToNumber(v) ==
    CASE v.t = "num" -> v
      [] v.t = "bool" -> Num(v.n)
      [] v.t = "str" ->
            IF \A i \in 1..Len(v.s) : IsDigit(v.s[i]) THEN Num(ParseNat(v.s, 0)) ELSE NaN
      [] OTHER -> NaN

\* a === b
StrictEq(a, b) == a.t = b.t /\ a.t # "nan" /\ a.n = b.n /\ a.s = b.s

\* a == b, the abstract equality of JavaScript on primitives.
LooseEq(a, b) ==
    IF a.t = b.t THEN StrictEq(a, b)
    ELSE IF a.t = "undefined" \/ b.t = "undefined" THEN FALSE
    ELSE StrictEq(ToNumber(a), ToNumber(b))

----------------------------------------------------------------------------
(* Strings *)

RECURSIVE Repeat(_, _)
Repeat(s, n) == IF n <= 0 THEN <<>> ELSE s \o Repeat(s, n - 1)

\* parts.join(sep)
RECURSIVE Join(_, _)
Join(parts, sep) ==
    IF parts = <<>> THEN <<>>
    ELSE IF Len(parts) = 1 THEN parts[1]
    ELSE parts[1] \o sep \o Join(Tail(parts), sep)

\* The characters of the literals the serializer emits.
LT == <<"<">>
GT == <<">">>
NL == <<"\n">>
SP == <<" ">>
DOCTYPE == <<"<", "!", "D", "O", "C", "T", "Y", "P", "E", " ", "h", "t", "m", "l", ">">>
HTML_OPEN == <<"<", "h", "t", "m", "l", ">">>
HTML_CLOSE == <<"<", "/", "h", "t", "m", "l", ">">>
HEAD_OPEN == <<"<", "h", "e", "a", "d", ">">>
HEAD_CLOSE == <<"<", "/", "h", "e", "a", "d", ">">>
BODY_OPEN == <<"<", "b", "o", "d", "y", ">">>
BODY_CLOSE == <<"<", "/", "b", "o", "d", "y", ">">>

----------------------------------------------------------------------------
(* The tree: names, props, nodes *)

\* A tag name is a string; the reserved kinds are symbols, never equal to a string.
Tag(t) == [sym |-> FALSE, id |-> t]
Symbol(desc) == [sym |-> TRUE, id |-> desc]

Fragment == Symbol(<<"F", "r", "a", "g", "m", "e", "n", "t">>)
HTML == Symbol(<<"H", "T", "M", "L">>)
CASE_ == Symbol(<<"C", "a", "s", "e">>)
DEFAULT == Symbol(<<"D", "e", "f", "a", "u", "l", "t">>)
HEAD == Symbol(<<"H", "e", "a", "d">>)

\* Property keys.
K_class == <<"c", "l", "a", "s", "s">>
K_className == <<"c", "l", "a", "s", "s", "N", "a", "m", "e">>
K_status == <<"s", "t", "a", "t", "u", "s">>
K_lang == <<"l", "a", "n", "g">>
K_cond == <<"c", "o", "n", "d">>
K_expr == <<"e", "x", "p", "r">>
K_c == <<"c">>

\* Props: an object, as the sequence of its [key, val] entries in insertion order.
Prop(k, v) == [key |-> k, val |-> v]

HasProp(props, k) == \E i \in 1..Len(props) : props[i].key = k

\* props[k]
PropGet(props, k) ==
    IF HasProp(props, k)
    THEN props[CHOOSE i \in 1..Len(props) : props[i].key = k].val
    ELSE Undefined

\* props[k] = v: an existing key keeps its place, a new key goes last.
RECURSIVE PropSet(_, _, _)
PropSet(props, k, v) ==
    IF props = <<>> THEN <<Prop(k, v)>>
    ELSE IF Head(props).key = k THEN <<Prop(k, v)>> \o Tail(props)
    ELSE <<Head(props)>> \o PropSet(Tail(props), k, v)

NoName == Tag(<<>>)

Text(s) == [k |-> "text", s |-> s, name |-> NoName, props |-> <<>>, children |-> <<>>]

List(items) == [k |-> "list", s |-> <<>>, name |-> NoName, props |-> <<>>, children |-> items]

IsElement(c) == c.k = "elem"

RECURSIVE flattenArraysOnly(_)
flattenArraysOnly(children) ==
    IF children = <<>> THEN <<>>
    ELSE LET c == Head(children) IN
         (IF c.k = "list" THEN flattenArraysOnly(c.children) ELSE <<c>>)
         \o flattenArraysOnly(Tail(children))

RECURSIVE flatten(_)
flatten(children) ==
    IF children = <<>> THEN <<>>
    ELSE LET c == Head(children) IN
         (IF c.k = "list" THEN flatten(c.children)
          ELSE IF IsElement(c) /\ c.name = Fragment THEN flatten(c.children)
          ELSE <<c>>) \o flatten(Tail(children))

\* new Element(name, props, children)
Element(name, props, children) ==
    [k |-> "elem", s |-> <<>>, name |-> name, props |-> props, children |-> flatten(children)]

----------------------------------------------------------------------------
(* The built-in components *)

HtmlPage(props, children) == Element(HTML, props, children)

HeadComponent(props, children) == Element(HEAD, props, children)

\* If({ cond }, children)
If(props, children) ==
    IF Truthy(PropGet(props, K_cond))
    THEN Element(Fragment, <<>>, children)
    ELSE Element(Fragment, <<>>, <<>>)

Case(props, children) == Element(CASE_, <<Prop(K_c, PropGet(props, K_c))>>, children)

Default(props, children) == Element(DEFAULT, <<>>, children)

\* children.find(pred) and children.findIndex(pred), over the sequence of pred's
\* values on the children: the index of the first child satisfying pred, 0 if none.
FindFirst(hits) ==
    IF \E i \in 1..Len(hits) : hits[i]
    THEN CHOOSE i \in 1..Len(hits) : hits[i] /\ \A j \in 1..(i - 1) : ~hits[j]
    ELSE 0

IsCaseOf(c, expr) == IsElement(c) /\ c.name = CASE_ /\ LooseEq(PropGet(c.props, K_c), expr)

IsDefault(c) == IsElement(c) /\ c.name = DEFAULT

\* Switch({ expr }, children)
Switch(props, children) ==
    LET expr == PropGet(props, K_expr)
        found == FindFirst([i \in 1..Len(children) |-> IsCaseOf(children[i], expr)])
        def == FindFirst([i \in 1..Len(children) |-> IsDefault(children[i])])
    IN  IF found # 0 THEN Element(Fragment, <<>>, children[found].children)
        ELSE IF def # 0 THEN Element(Fragment, <<>>, children[def].children)
        ELSE Element(Fragment, <<>>, <<>>)

\* createElement(nameOrGenerator, props, ...children): a function is called with
\* the props and the raw children; Fragment drops the props.
\* The first argument is a generator function (fn names it) or a name.
Generator(fn) == [isFunction |-> TRUE, fn |-> fn, name |-> NoName]
Name(name) == [isFunction |-> FALSE, fn |-> "", name |-> name]

\* generator(props, children) for the built-in components.
CallGenerator(fn, props, children) ==
    CASE fn = "HtmlPage" -> HtmlPage(props, children)
      [] fn = "Head" -> HeadComponent(props, children)
      [] fn = "If" -> If(props, children)
      [] fn = "Switch" -> Switch(props, children)
      [] fn = "Case" -> Case(props, children)
      [] fn = "Default" -> Default(props, children)

createElement(nameOrGenerator, props, children) ==
    IF nameOrGenerator.isFunction THEN CallGenerator(nameOrGenerator.fn, props, children)
    ELSE IF nameOrGenerator.name = Fragment THEN Element(Fragment, <<>>, children)
    ELSE Element(nameOrGenerator.name, props, children)

----------------------------------------------------------------------------
(* The serializer *)

\* RenderOptions: `has` is the set of fields the object holds. useSelfCloseTags is
\* [t, b, l]: a boolean b (t = "bool") or a list l of tag names (t = "list").
USCBool(b) == [t |-> "bool", b |-> b, l |-> <<>>]
USCList(l) == [t |-> "list", b |-> FALSE, l |-> l]

Options(has, indent, indentString, indentSize, useSelfCloseTags) ==
    [has |-> has, indent |-> indent, indentString |-> indentString,
     indentSize |-> indentSize, useSelfCloseTags |-> useSelfCloseTags]

DefaultIndentSize == 4

DefaultOptions ==
    Options({"indent", "indentString", "indentSize", "useSelfCloseTags"},
            FALSE, <<>>, DefaultIndentSize, USCBool(TRUE))

\* { ...defaults, ...options }
Spread(defaults, options) ==
    Options(defaults.has \cup options.has,
            IF "indent" \in options.has THEN options.indent ELSE defaults.indent,
            IF "indentString" \in options.has THEN options.indentString ELSE defaults.indentString,
            IF "indentSize" \in options.has THEN options.indentSize ELSE defaults.indentSize,
            IF "useSelfCloseTags" \in options.has THEN options.useSelfCloseTags
            ELSE defaults.useSelfCloseTags)

createIndent(options, indentation) ==
    IF ~options.indent THEN <<>>
    ELSE IF options.indentString # <<>> THEN Repeat(options.indentString, indentation)
    ELSE IF options.indentSize # 0 THEN Repeat(SP, indentation * options.indentSize)
    ELSE <<>>

RECURSIVE createAttrs(_)
createAttrs(props) ==
    IF props = <<>> THEN <<>>
    ELSE SP \o Head(props).key \o <<"=", "\"">> \o JsToString(Head(props).val) \o <<"\"">>
         \o createAttrs(Tail(props))

SepDefaultComma(options) == IF options.indent THEN NL ELSE <<",">>

\* options.indent ? "\n" : ""
Sep(options) == IF options.indent THEN NL ELSE <<>>

\* options.useSelfCloseTags == true: a list is compared through its join(",").
USCLooseTrue(u) ==
    IF u.t = "bool" THEN u.b
    ELSE LooseEq(Str(Join(u.l, <<",">>)), Bool(TRUE))

SelfCloseAnyOption(node, options) == Len(node.children) = 0

\* node.children.length == 0 && (useSelfCloseTags == true || (list && list.includes(name)))
SelfClose(node, options) ==
    /\ Len(node.children) = 0
    /\ \/ USCLooseTrue(options.useSelfCloseTags)
       \/ /\ options.useSelfCloseTags.t = "list"
          /\ ~node.name.sym
          /\ \E i \in 1..Len(options.useSelfCloseTags.l) :
                options.useSelfCloseTags.l[i] = node.name.id

\* if (props.className && !props.class) props.class = props.className
MaterializeClass(props) ==
    IF Truthy(PropGet(props, K_className)) /\ ~Truthy(PropGet(props, K_class))
    THEN PropSet(props, K_class, PropGet(props, K_className))
    ELSE props

IsHead(n) == IsElement(n) /\ n.name = HEAD

RemoveAtKeeps(seq, i) == seq

InsertAtDrops(seq, i, x) == seq

\* seq.splice(i, 1)
RemoveAt(seq, i) == SubSeq(seq, 1, i - 1) \o SubSeq(seq, i + 1, Len(seq))

InsertAt(seq, i, x) == SubSeq(seq, 1, i - 1) \o <<x>> \o SubSeq(seq, i, Len(seq))

\* A call's outcome: ok is FALSE when it threw (a Symbol name put into a template
\* literal is a TypeError), s is the returned string, node the node as the call left it.
Ret(ok, s, node) == [ok |-> ok, s |-> s, node |-> node]

RECURSIVE renderInternal(_, _, _)
RECURSIVE renderEach(_, _, _)

\* nodes.map(n => renderInternal(n, options, indentation)): parts are the strings
\* returned, in order; a throw ends the map.
renderEach(nodes, options, indentation) ==
    IF nodes = <<>> THEN [ok |-> TRUE, parts |-> <<>>, nodes |-> <<>>]
    ELSE LET r == renderInternal(Head(nodes), options, indentation) IN
         IF ~r.ok THEN [ok |-> FALSE, parts |-> <<>>, nodes |-> <<r.node>> \o Tail(nodes)]
         ELSE LET rest == renderEach(Tail(nodes), options, indentation) IN
              [ok |-> rest.ok, parts |-> <<r.s>> \o rest.parts,
               nodes |-> <<r.node>> \o rest.nodes]

\* node.map(n => renderInternal(n, options, indentation)).join(options.indent ? "\n" : "")
renderArray(node, options, indentation) ==
    LET m == renderEach(node.children, options, indentation) IN
    Ret(m.ok, IF m.ok THEN Join(m.parts, Sep(options)) ELSE <<>>,
        [node EXCEPT !.children = m.nodes])

renderFragmentDeeper(node, options, indentation) ==
    LET m == renderEach(node.children, options, indentation + 1) IN
    Ret(m.ok, IF m.ok THEN Join(m.parts, Sep(options)) ELSE <<>>,
        [node EXCEPT !.children = m.nodes])

\* node.children.map(n => renderInternal(n, options, indentation)).join(...)
renderFragment(node, options, indentation) ==
    LET m == renderEach(node.children, options, indentation) IN
    Ret(m.ok, IF m.ok THEN Join(m.parts, Sep(options)) ELSE <<>>,
        [node EXCEPT !.children = m.nodes])

renderHTML(node, options, indentation) ==
    LET indentString == createIndent(options, indentation)
        sep == Sep(options)
        index == FindFirst([i \in 1..Len(node.children) |-> IsHead(node.children[i])])
        head == IF index = 0 THEN <<>> ELSE node.children[index].children
        children == IF index = 0 THEN node.children ELSE RemoveAt(node.children, index)
        h == renderInternal(List(head), options, indentation + 1)
        b == renderEach(children, options, indentation + 1)
        headAfter(hn) == [node.children[index] EXCEPT !.children = hn]
        after(hn, bn) == [node EXCEPT !.children =
                            IF index = 0 THEN bn ELSE InsertAt(bn, index, headAfter(hn))]
    IN  IF ~h.ok THEN Ret(FALSE, <<>>, after(h.node.children, children))
        ELSE IF ~b.ok THEN Ret(FALSE, <<>>, after(h.node.children, b.nodes))
        ELSE Ret(TRUE,
                 indentString \o DOCTYPE \o sep
                 \o indentString \o HTML_OPEN \o sep
                 \o indentString \o HEAD_OPEN \o sep
                 \o h.s \o (IF options.indent /\ Len(head) > 0 THEN NL ELSE <<>>)
                 \o indentString \o HEAD_CLOSE \o sep
                 \o indentString \o BODY_OPEN \o sep
                 \o Join(b.parts, sep)
                 \o (IF Len(children) > 0 /\ options.indent THEN NL ELSE <<>>)
                 \o indentString \o BODY_CLOSE \o sep
                 \o indentString \o HTML_CLOSE,
                 after(h.node.children, b.nodes))

renderGeneric(node, options, indentation) ==
    LET selfClose == SelfClose(node, options)
        props == MaterializeClass(node.props)
        attrs == createAttrs(props)
        indentString == createIndent(options, indentation)
        withProps == [node EXCEPT !.props = props]
        open == indentString \o LT \o node.name.id \o attrs
                \o (IF selfClose THEN <<" ", "/">> ELSE <<>>) \o GT
        c == renderEach(node.children, options, indentation + 1)
        some == Len(node.children) > 0 /\ options.indent
    IN  IF node.name.sym THEN Ret(FALSE, <<>>, withProps)
        ELSE IF selfClose THEN Ret(TRUE, open, withProps)
        ELSE IF ~c.ok THEN Ret(FALSE, <<>>, [withProps EXCEPT !.children = c.nodes])
        ELSE Ret(TRUE,
                 open \o (IF some THEN NL ELSE <<>>)
                 \o Join(c.parts, Sep(options))
                 \o (IF some THEN NL \o indentString ELSE <<>>)
                 \o <<"<", "/">> \o node.name.id \o GT,
                 [withProps EXCEPT !.children = c.nodes])

renderInternal(node, options, indentation) ==
    IF node.k = "text" THEN Ret(TRUE, createIndent(options, indentation) \o node.s, node)
    ELSE IF node.k = "list" THEN renderArray(node, options, indentation)
    ELSE IF node.name = Fragment THEN renderFragment(node, options, indentation)
    ELSE IF node.name = HTML THEN renderHTML(node, options, indentation)
    ELSE renderGeneric(node, options, indentation)

\* render(top, options = {}, indentation = 0)
render(top, options, indentation) ==
    renderInternal(top, Spread(DefaultOptions, options), indentation)

----------------------------------------------------------------------------
(* The program as a state machine: JSX expressions are evaluated innermost   *)
(* first, so the children of a createElement call are the values on top of   *)
(* an evaluation stack. built records the last construction call, rendered   *)
(* the last render call, response what the last express handler sent.        *)

MaxNodes == 3

Texts == {<<"a">>, <<"b">>}
ClassNameVals == {Str(<<"x">>), Str(<<>>)}
ClassVals == {Str(<<"c">>), Str(<<>>)}

\* The attribute objects given to generic elements: every object over className and class.
PropsInputs ==
    {<<>>}
    \cup {<<Prop(K_className, v)>> : v \in ClassNameVals}
    \cup {<<Prop(K_class, w)>> : w \in ClassVals}
    \cup {<<Prop(K_className, v), Prop(K_class, w)>> : v \in ClassNameVals, w \in ClassVals}

\* The attribute objects of the trees whose shape is explored.
TreeProps == {<<>>, <<Prop(K_className, Str(<<"x">>))>>}

\* The attribute objects given to HtmlPage.
PageStatus == 404
PagePropsInputs == {<<>>, <<Prop(K_lang, Str(<<"e", "n">>))>>}

\* The attribute objects given to the HtmlPage a served component returns.
StatusPropsInputs ==
    {<<>>, <<Prop(K_status, Num(PageStatus))>>, <<Prop(K_status, Str(<<"4", "0", "4">>))>>}

\* Scrutinees and case values of Switch, and conditions of If.
SwitchVals == {Num(0), Num(1), Str(<<"1">>), Bool(FALSE)}
CondVals == {Bool(TRUE), Bool(FALSE)}

\* The calls of render: [options, indentation].
RenderInputs ==
    {[options |-> Options({}, FALSE, <<>>, 0, USCBool(FALSE)), indentation |-> 0],
     [options |-> Options({"indent"}, TRUE, <<>>, 0, USCBool(FALSE)), indentation |-> 0],
     [options |-> Options({"indent"}, TRUE, <<>>, 0, USCBool(FALSE)), indentation |-> 1],
     [options |-> Options({"indent", "indentString"}, TRUE, <<"\t">>, 0, USCBool(FALSE)),
      indentation |-> 1],
     [options |-> Options({"useSelfCloseTags"}, FALSE, <<>>, 0, USCBool(FALSE)),
      indentation |-> 1],
     [options |-> Options({"indent", "useSelfCloseTags"}, TRUE, <<>>, 0, USCList(<< <<"d">> >>)),
      indentation |-> 0],
     [options |-> Options({"useSelfCloseTags"}, FALSE, <<>>, 0, USCList(<< <<"b", "r">> >>)),
      indentation |-> 0]}

RECURSIVE Size(_)
RECURSIVE SizeAll(_)
\* The number of nodes of a tree.
Size(node) == 1 + SizeAll(node.children)
SizeAll(nodes) == IF nodes = <<>> THEN 0 ELSE Size(Head(nodes)) + SizeAll(Tail(nodes))

\* The top k values of the stack, in evaluation order, and the stack below them.
TopK(k) == SubSeq(stack, Len(stack) - k + 1, Len(stack))
BelowK(k) == SubSeq(stack, 1, Len(stack) - k)

NoBuilt == [op |-> "none", props |-> <<>>, children |-> <<>>, ret |-> List(<<>>)]
NoRendered ==
    [done |-> FALSE, top |-> List(<<>>), options |-> DefaultOptions, indentation |-> 0,
     ok |-> FALSE, out |-> <<>>, after |-> List(<<>>)]
NoResponse == [called |-> FALSE, options |-> DefaultOptions, arg |-> Undefined,
               component |-> List(<<>>), status |-> Undefined, sent |-> FALSE, body |-> <<>>]

Init ==
    /\ stack = <<>>
    /\ built = NoBuilt
    /\ rendered = NoRendered
    /\ response = NoResponse

\* A text child: "a"
PushText(texts) ==
    \E t \in texts :
        /\ SizeAll(stack) < MaxNodes
        /\ stack' = Append(stack, Text(t))
        /\ built' = NoBuilt
        /\ rendered' = NoRendered
        /\ response' = NoResponse

\* An array child: {[x, y]}
PushArray ==
    \E k \in 0..MaxNodes :
        /\ k <= Len(stack)
        /\ SizeAll(stack) < MaxNodes
        /\ stack' = Append(BelowK(k), List(TopK(k)))
        /\ built' = NoBuilt
        /\ rendered' = NoRendered
        /\ response' = NoResponse

\* createElement(nameOrGenerator, props, ...children) on the top k values.
Construct(op, nameOrGenerator, props, k) ==
    /\ k <= Len(stack)
    /\ SizeAll(stack) < MaxNodes
    /\ LET ret == createElement(nameOrGenerator, props, TopK(k)) IN
       /\ stack' = Append(BelowK(k), ret)
       /\ built' = [op |-> op, props |-> props, children |-> TopK(k), ret |-> ret]
    /\ rendered' = NoRendered
    /\ response' = NoResponse

\* <d ...>...</d>
CreateTag(names, propsInputs) ==
    \E t \in names, props \in propsInputs, k \in 0..MaxNodes :
        Construct("tag", Name(Tag(t)), props, k)

\* <>...</>
CreateFragment == \E k \in 0..MaxNodes : Construct("Fragment", Name(Fragment), <<>>, k)

CreateHtmlPage(propsInputs) ==
    \E props \in propsInputs, k \in 0..MaxNodes :
        Construct("HtmlPage", Generator("HtmlPage"), props, k)

CreateHead == \E k \in 0..MaxNodes : Construct("Head", Generator("Head"), <<>>, k)

CreateIf ==
    \E cond \in CondVals, k \in 0..MaxNodes :
        Construct("If", Generator("If"), <<Prop(K_cond, cond)>>, k)

CreateCase ==
    \E c \in SwitchVals, k \in 0..MaxNodes :
        Construct("Case", Generator("Case"), <<Prop(K_c, c)>>, k)

CreateDefault == \E k \in 0..MaxNodes : Construct("Default", Generator("Default"), <<>>, k)

CreateSwitch ==
    \E expr \in SwitchVals, k \in 0..MaxNodes :
        Construct("Switch", Generator("Switch"), <<Prop(K_expr, expr)>>, k)

\* render(top, options, indentation) on a finished expression; the call may
\* change the props of the elements it visits.
Render ==
    \E call \in RenderInputs :
        /\ Len(stack) = 1
        /\ LET top == stack[1]
               r == render(top, call.options, call.indentation)
           IN /\ rendered' = [done |-> TRUE, top |-> top, options |-> call.options,
                              indentation |-> call.indentation, ok |-> r.ok, out |-> r.s,
                              after |-> r.node]
              /\ stack' = <<r.node>>
        /\ built' = NoBuilt
        /\ response' = NoResponse

\* The tags create() presets as self-closing.
VoidTags ==
    << <<"a", "r", "e", "a">>, <<"b", "a", "s", "e">>, <<"b", "r">>, <<"c", "o", "l">>,
       <<"e", "m", "b", "e", "d">>, <<"h", "r">>, <<"i", "m", "g">>,
       <<"i", "n", "p", "u", "t">>, <<"l", "i", "n", "k">>, <<"i", "n", "p", "u", "t">>,
       <<"l", "i", "n", "k">>, <<"m", "e", "t", "a">>, <<"p", "a", "r", "a", "m">>,
       <<"s", "o", "u", "r", "c", "e">>, <<"t", "r", "a", "c", "k">>, <<"w", "b", "r">> >>

\* create(options): if (options.useSelfCloseTags == null) options.useSelfCloseTags = [...]
create(options) ==
    IF "useSelfCloseTags" \in options.has THEN options
    ELSE [options EXCEPT !.has = @ \cup {"useSelfCloseTags"},
                         !.useSelfCloseTags = USCList(VoidTags)]

\* if (top.name != HTML) top = new Element(HTML, {}, [top])
WrapPage(top) == IF top.name # HTML THEN Element(HTML, <<>>, <<top>>) ELSE top

\* The renderer create(options) returns, called on top.
renderer(options, top) == render(WrapPage(top), create(options), 0)

DefaultStatus == 200

actualStatusPageFirst(status, element) ==
    IF PropGet(element.props, K_status).t \in {"num", "nan"}
    THEN PropGet(element.props, K_status)
    ELSE IF status.t # "undefined" THEN status
    ELSE Num(DefaultStatus)

\* The status the handler of createHandler(component, status) responds with.
actualStatus(status, element) ==
    IF status.t # "undefined" THEN status
    ELSE IF PropGet(element.props, K_status).t \in {"num", "nan"}
         THEN PropGet(element.props, K_status)
    ELSE Num(DefaultStatus)

\* The element the component returned, as the render of the page left it.
ComponentAfter(returned, page) ==
    IF returned.name = HTML THEN page
    ELSE IF returned.name = Fragment THEN [returned EXCEPT !.children = page.children]
    ELSE page.children[1]

\* The options objects given to create, and the status arguments of createHandler.
CreateInputs ==
    {Options({"indent", "useSelfCloseTags"}, TRUE, <<>>, 0, USCBool(FALSE)),
     Options({}, FALSE, <<>>, 0, USCBool(FALSE))}

StatusInputs == {Undefined, Num(500), Num(0)}

\* create(options).createHandler(component, status)(req, res), where the component
\* returns the finished element: res.status(actualStatus).send(renderer(element)).
Handle ==
    \E options \in CreateInputs, status \in StatusInputs :
        /\ Len(stack) = 1
        /\ IsElement(stack[1])
        /\ LET returned == stack[1]
               element == WrapPage(returned)
               r == renderer(options, element)
           IN /\ response' = [called |-> TRUE, options |-> options, arg |-> status,
                              component |-> returned,
                              status |-> actualStatus(status, element),
                              sent |-> r.ok, body |-> r.s]
              /\ stack' = <<ComponentAfter(returned, r.node)>>
        /\ built' = NoBuilt
        /\ rendered' = NoRendered

\* Trees of texts, arrays, fragments, generic elements and pages, rendered.
Next ==
    \/ PushText({<<"a">>})
    \/ PushArray
    \/ CreateTag({<<"d">>}, TreeProps)
    \/ CreateFragment
    \/ CreateHtmlPage({<<>>})
    \/ CreateHead
    \/ Render

Spec == Init /\ [][Next]_vars

\* Elements and pages over every attribute object, rendered.
NextAttrs ==
    \/ PushText({<<"a">>})
    \/ CreateTag({<<"d">>}, PropsInputs)
    \/ CreateHtmlPage(PagePropsInputs)
    \/ Render

SpecAttrs == Init /\ [][NextAttrs]_vars

\* The conditional and switch components.
NextSwitch ==
    \/ PushText(Texts)
    \/ CreateIf
    \/ CreateCase
    \/ CreateDefault
    \/ CreateSwitch
    \/ Render

SpecSwitch == Init /\ [][NextSwitch]_vars

\* Components served by the express handler.
NextHandler ==
    \/ PushText({<<"a">>})
    \/ CreateTag({<<"d">>}, {<<>>})
    \/ CreateFragment
    \/ CreateHtmlPage(StatusPropsInputs)
    \/ Handle

SpecHandler == Init /\ [][NextHandler]_vars

\* Every way an element is constructed, over children nested in arrays and fragments.
NextFlatten ==
    \/ PushText(Texts)
    \/ PushArray
    \/ CreateTag({<<"d">>}, {<<>>})
    \/ CreateFragment
    \/ CreateHtmlPage({<<>>})
    \/ CreateHead
    \/ CreateIf
    \/ CreateCase
    \/ CreateDefault
    \/ CreateSwitch

SpecFlatten == Init /\ [][NextFlatten]_vars

----------------------------------------------------------------------------
(* Reading the output *)

\* sub occurs in s at position i.
OccursAt(s, sub, i) ==
    /\ i >= 1
    /\ i + Len(sub) - 1 <= Len(s)
    /\ SubSeq(s, i, i + Len(sub) - 1) = sub

Contains(s, sub) == \E i \in 1..(Len(s) + 1) : OccursAt(s, sub, i)

Occurrences(s, sub) == Cardinality({i \in 1..(Len(s) + 1) : OccursAt(s, sub, i)})

StartsWith(s, sub) == OccursAt(s, sub, 1)

EndsWith(s, sub) == OccursAt(s, sub, Len(s) - Len(sub) + 1)

\* The tag that starts with `start`: the text from its first occurrence up to the next ">".
TagFrom(s, start) ==
    IF ~Contains(s, start) THEN <<>>
    ELSE LET i == CHOOSE i \in 1..Len(s) :
                    OccursAt(s, start, i) /\ \A j \in 1..(i - 1) : ~OccursAt(s, start, j)
             e == CHOOSE e \in i..(Len(s) + 1) :
                    (e = Len(s) + 1 \/ s[e] = ">") /\ \A j \in i..(e - 1) : s[j] # ">"
         IN SubSeq(s, i, e - 1)

\* An attribute as it is written in a tag.
Attr(k, v) == SP \o k \o <<"=", "\"">> \o v \o <<"\"">>

IsGeneric(node) == IsElement(node) /\ ~node.name.sym

----------------------------------------------------------------------------
(* Claims *)

\* C1: a generic element with a non-empty className and no class attribute renders
\* with class="x" and with no attribute named className.
C1_ClassNameAlias ==
    (/\ rendered.done /\ rendered.ok
     /\ IsGeneric(rendered.top)
     /\ PropGet(rendered.top.props, K_className).t = "str"
     /\ PropGet(rendered.top.props, K_className).s # <<>>
     /\ ~HasProp(rendered.top.props, K_class))
    => LET tag == TagFrom(rendered.out, LT \o rendered.top.name.id) IN
       /\ Contains(tag, Attr(K_class, PropGet(rendered.top.props, K_className).s))
       /\ ~Contains(tag, SP \o K_className \o <<"=">>)

\* C2: every attribute given to HtmlPage appears as key="value" in the opening html
\* tag of the rendered page.
C2_PageAttrsOnHtmlTag ==
    (/\ rendered.done /\ rendered.ok
     /\ IsElement(rendered.top) /\ rendered.top.name = HTML)
    => \A i \in 1..Len(rendered.top.props) :
          Contains(TagFrom(rendered.out, <<"<", "h", "t", "m", "l">>),
                   Attr(rendered.top.props[i].key, JsToString(rendered.top.props[i].val)))

\* C6: a generic element with both className and class renders class with its
\* original value, exactly once.
C6_ClassWins ==
    (/\ rendered.done /\ rendered.ok
     /\ IsGeneric(rendered.top)
     /\ HasProp(rendered.top.props, K_className)
     /\ HasProp(rendered.top.props, K_class))
    => LET tag == TagFrom(rendered.out, LT \o rendered.top.name.id) IN
       /\ Occurrences(tag, SP \o K_class \o <<"=">>) = 1
       /\ Contains(tag, Attr(K_class, JsToString(PropGet(rendered.top.props, K_class))))

\* The outcome of a render call as the caller sees it: the string, or a throw.
Outcome(r) == [ok |-> r.ok, s |-> r.s]

\* No array and no fragment in the nodes, at any depth of arrays, is empty.
RECURSIVE NoneEmpty(_)
NoneEmpty(nodes) ==
    \A i \in 1..Len(nodes) :
        /\ nodes[i].k = "list" => (nodes[i].children # <<>> /\ NoneEmpty(nodes[i].children))
        /\ (IsElement(nodes[i]) /\ nodes[i].name = Fragment) => nodes[i].children # <<>>

EffectiveUSC(options) ==
    IF "useSelfCloseTags" \in options.has THEN options.useSelfCloseTags ELSE USCBool(TRUE)

\* The element has no children and the option allows the single tag for its name.
MaySelfClose(node, u) ==
    /\ node.children = <<>>
    /\ \/ (u.t = "bool" /\ u.b)
       \/ (u.t = "list" /\ \E i \in 1..Len(u.l) : u.l[i] = node.name.id)

IsInk(c) == c \notin {" ", "\n", "\t"}
StripWs(s) == SelectSeq(s, IsInk)

\* The positions of the Head children of a page.
HeadPositions(page) == {i \in 1..Len(page.children) : IsHead(page.children[i])}

\* The children of the first Head child, or nothing.
HeadContent(page) ==
    IF HeadPositions(page) = {} THEN <<>>
    ELSE page.children[CHOOSE i \in HeadPositions(page) :
                          \A j \in HeadPositions(page) : i <= j].children

\* The children other than the first Head child, in their order.
BodyContent(page) ==
    IF HeadPositions(page) = {} THEN page.children
    ELSE LET first == CHOOSE i \in HeadPositions(page) : \A j \in HeadPositions(page) : i <= j
         IN SubSeq(page.children, 1, first - 1)
            \o SubSeq(page.children, first + 1, Len(page.children))

\* The renderings of nodes one level below the page, without whitespace, in order.
RECURSIVE RenderedInOrder(_, _, _)
RenderedInOrder(nodes, options, indentation) ==
    IF nodes = <<>> THEN <<>>
    ELSE StripWs(render(Head(nodes), options, indentation + 1).s)
         \o RenderedInOrder(Tail(nodes), options, indentation)

\* The document a page is said to render to, whitespace apart.
PageStructure(page, options, indentation) ==
    StripWs(DOCTYPE) \o HTML_OPEN \o HEAD_OPEN
    \o RenderedInOrder(HeadContent(page), options, indentation)
    \o HEAD_CLOSE \o BODY_OPEN
    \o RenderedInOrder(BodyContent(page), options, indentation)
    \o BODY_CLOSE \o HTML_CLOSE

IsPage(node) == IsElement(node) /\ node.name = HTML

\* The nodes can be serialized: no Head (or other reserved kind) is left where the
\* generic branch would put its Symbol name into the tag.
RECURSIVE Serializable(_)
Serializable(nodes) ==
    \A i \in 1..Len(nodes) :
        LET n == nodes[i] IN
        IF n.k = "text" THEN TRUE
        ELSE IF n.k = "list" \/ n.name = Fragment THEN Serializable(n.children)
        ELSE IF n.name = HTML
             THEN Serializable(HeadContent(n)) /\ Serializable(BodyContent(n))
        ELSE ~n.name.sym /\ Serializable(n.children)

\* Apart from Head children of the page itself, nothing in the page is of a
\* reserved kind that the serializer cannot write.
HeadsOnlyAsChildren(page) ==
    \A i \in 1..Len(page.children) :
        IF IsHead(page.children[i]) THEN Serializable(page.children[i].children)
        ELSE Serializable(<<page.children[i]>>)

\* C8, as stated: rendering a page emits doctype, <html>, <head>, the children of the
\* first Head child, </head>, <body>, the remaining children in order, </body>, </html>.
C8_DocumentSplit ==
    (rendered.done /\ IsPage(rendered.top) /\ HeadsOnlyAsChildren(rendered.top))
    => /\ rendered.ok
       /\ StripWs(rendered.out)
          = PageStructure(rendered.top, rendered.options, rendered.indentation)

\* C8, amended: the document split holds for a page whose head content and remaining
\* children can be serialized; a second Head child stays in the body and makes the
\* render throw.
C8_DocumentSplitAmended ==
    (rendered.done /\ IsPage(rendered.top))
    => IF Serializable(<<rendered.top>>)
       THEN /\ rendered.ok
            /\ StripWs(rendered.out)
               = PageStructure(rendered.top, rendered.options, rendered.indentation)
       ELSE ~rendered.ok

\* A page with a Head child holding content and a body child was rendered.
C8_Witness ==
    /\ rendered.done /\ rendered.ok /\ IsPage(rendered.top)
    /\ HeadPositions(rendered.top) # {}
    /\ Len(rendered.top.children) = 2
    /\ rendered.options.indent

\* C9: without its whitespace and newlines, render(node, {indent: true}) is
\* render(node, {indent: false}) without its whitespace and newlines.
C9_IndentPreservesStructure ==
    (/\ rendered.done /\ rendered.ok
     /\ rendered.options.has = {"indent"} /\ rendered.options.indent)
    => LET flat == [rendered.options EXCEPT !.indent = FALSE] IN
       /\ render(rendered.top, flat, rendered.indentation).ok
       /\ render(rendered.after, flat, rendered.indentation).ok
       /\ StripWs(rendered.out) = StripWs(render(rendered.top, flat, rendered.indentation).s)
       /\ StripWs(rendered.out) = StripWs(render(rendered.after, flat, rendered.indentation).s)

\* A page holding an element with a child was rendered with indentation, over
\* several lines.
C9_Witness ==
    /\ rendered.done /\ rendered.ok
    /\ rendered.options.has = {"indent"} /\ rendered.options.indent
    /\ IsPage(rendered.top)
    /\ \E i \in 1..Len(rendered.top.children) : IsGeneric(rendered.top.children[i])
    /\ Occurrences(rendered.out, NL) > 6

\* C10: the handler responds with the status argument of createHandler when given,
\* otherwise with the numeric status attribute of the HtmlPage the component returned,
\* otherwise with 200; a component result that is no HtmlPage is rendered inside a new
\* HtmlPage.
C10_HandlerStatus ==
    response.called
    => LET given == response.arg.t # "undefined"
           page == IsPage(response.component)
           attr == PropGet(response.component.props, K_status)
       IN /\ given => response.status = response.arg
          /\ (~given /\ page /\ attr.t = "num") => response.status = attr
          /\ (~given /\ ~(page /\ attr.t = "num")) => response.status = Num(200)
          /\ (response.sent /\ ~page)
             => response.body
                = render(HtmlPage(<<>>, <<response.component>>), create(response.options), 0).s
          /\ (response.sent /\ page)
             => response.body = render(response.component, create(response.options), 0).s

\* A component returned an HtmlPage with a numeric status, no status argument was
\* given, and the response was sent.
C10_Witness ==
    /\ response.called /\ response.sent
    /\ response.arg.t = "undefined"
    /\ IsPage(response.component)
    /\ PropGet(response.component.props, K_status).t = "num"
    /\ response.status = Num(PageStatus)

\* The Case children whose c is the scrutinee in value and type, and the Default children.
MatchingCases(children, expr) ==
    {i \in 1..Len(children) :
        /\ IsElement(children[i]) /\ children[i].name = CASE_
        /\ StrictEq(PropGet(children[i].props, K_c), expr)}

Defaults(children) == {i \in 1..Len(children) : IsDefault(children[i])}

Least(S) == CHOOSE i \in S : \A j \in S : i <= j

\* C4: Switch returns a Fragment of the children of the first Case whose c equals
\* expr; with no such Case, of the children of the first Default; with neither, an
\* empty Fragment, which renders to the empty string.
C4_SwitchResolution ==
    built.op = "Switch"
    => LET expr == PropGet(built.props, K_expr)
           cases == MatchingCases(built.children, expr)
           defs == Defaults(built.children)
       IN /\ IsElement(built.ret) /\ built.ret.name = Fragment
          /\ cases # {} => built.ret.children = built.children[Least(cases)].children
          /\ (cases = {} /\ defs # {})
             => built.ret.children = built.children[Least(defs)].children
          /\ (cases = {} /\ defs = {})
             => /\ built.ret.children = <<>>
                /\ \A call \in RenderInputs :
                      render(built.ret, call.options, call.indentation).s = <<>>

\* C5: a Case whose c differs in type from expr is never selected: when every Case
\* is of another type than expr, Switch gives the Default branch or the empty Fragment.
C5_SwitchNoCoercion ==
    (/\ built.op = "Switch"
     /\ \A i \in 1..Len(built.children) :
           (IsElement(built.children[i]) /\ built.children[i].name = CASE_)
           => PropGet(built.children[i].props, K_c).t # PropGet(built.props, K_expr).t)
    => LET defs == Defaults(built.children) IN
       built.ret.children =
          IF defs = {} THEN <<>> ELSE built.children[Least(defs)].children

\* A text or an element that is no fragment.
IsLeaf(n) == n.k = "text" \/ (n.k = "elem" /\ n.name # Fragment)

\* The leaves of nested nodes, left to right: arrays and fragments stand for their members.
RECURSIVE LeavesOf(_)
LeavesOf(nodes) ==
    IF nodes = <<>> THEN <<>>
    ELSE LET last == nodes[Len(nodes)] IN
         LeavesOf(SubSeq(nodes, 1, Len(nodes) - 1))
         \o (IF IsLeaf(last) THEN <<last>> ELSE LeavesOf(last.children))

\* Every element among the nodes, at any depth, has only leaves as children.
RECURSIVE ElementsFlat(_)
ElementsFlat(nodes) ==
    \A i \in 1..Len(nodes) :
        /\ IsElement(nodes[i]) => \A j \in 1..Len(nodes[i].children) : IsLeaf(nodes[i].children[j])
        /\ ElementsFlat(nodes[i].children)

\* C11: every constructed element's children hold no array and no fragment; they are
\* the text and non-fragment element leaves of the children given to the constructor,
\* in their order, and flattening them again changes nothing.
C11_FlatteningInvariant ==
    /\ ElementsFlat(stack)
    /\ built.op # "none"
       => /\ IsElement(built.ret)
          /\ flatten(built.ret.children) = built.ret.children
          /\ built.op \in {"tag", "Fragment", "HtmlPage", "Head", "Case", "Default"}
             => built.ret.children = LeavesOf(built.children)
          /\ built.op = "If"
             => built.ret.children
                = IF Truthy(PropGet(built.props, K_cond)) THEN LeavesOf(built.children)
                  ELSE <<>>
          /\ built.op = "Switch"
             => \/ built.ret.children = <<>>
                \/ \E i \in 1..Len(built.children) :
                      /\ IsElement(built.children[i])
                      /\ built.ret.children = LeavesOf(built.children[i].children)

\* An element constructed over an array or a fragment that holds a leaf.
C11_Witness ==
    /\ built.op \in {"tag", "HtmlPage", "Head", "Case", "Default"}
    /\ \E i \in 1..Len(built.children) :
          ~IsLeaf(built.children[i]) /\ built.children[i].children # <<>>
    /\ built.ret.children # <<>>
    /\ built.ret.children = LeavesOf(built.children)

\* The structure of nodes: every node's kind, text, name and children, without the props.
RECURSIVE Shape(_)
Shape(nodes) ==
    [i \in 1..Len(nodes) |->
        [k |-> nodes[i].k, s |-> nodes[i].s, name |-> nodes[i].name,
         children |-> Shape(nodes[i].children)]]

\* C12: a render call leaves every element's name and children list as they were, and
\* a second render of the tree with the same options and start indentation has the
\* outcome of the first, also where the first call set class from className.
C12_RenderRepeatable ==
    rendered.done
    => LET second == render(rendered.after, rendered.options, rendered.indentation) IN
       /\ Shape(<<rendered.after>>) = Shape(<<rendered.top>>)
       /\ stack = <<rendered.after>>
       /\ second.ok = rendered.ok
       /\ second.s = rendered.out
       /\ Shape(<<second.node>>) = Shape(<<rendered.top>>)

\* A page with a Head child rendered without a throw, the call having set a class.
C12_Witness ==
    /\ rendered.done /\ rendered.ok
    /\ IsPage(rendered.top)
    /\ \E i \in 1..Len(rendered.top.children) : IsHead(rendered.top.children[i])
    /\ rendered.after # rendered.top
    /\ Contains(rendered.out, Attr(K_class, <<"x">>))

====
